---------------------------- MODULE Spec2Model ----------------------------
(***************************************************************************)
(* Model of the planning engine of src/mps.py: the level and chase MPS     *)
(* planners (calcular_mps_nivelado, calcular_mps_perseguidor_ss_variable)  *)
(* and the MRP netting recurrence (calcular_mrp).                          *)
(*                                                                         *)
(* One behaviour is one call of one planner.  Init is the moment of the    *)
(* call (the arguments are bound, nothing has run); the *Enter actions run *)
(* the code that precedes the period loop, the *Period actions run one     *)
(* iteration of the loop, the *Return actions run the code after it.       *)
(*                                                                         *)
(* Quantities are integers.  scrap_rate is held in hundredths (5 stands    *)
(* for 0.05), so that 1 - scrap_rate is (100 - scrap_rate)/100 and         *)
(* math.ceil(x / (1 - scrap_rate)) is an exact integer ceiling.  The source *)
(* computes the quotient in double precision, which can exceed an exact    *)
(* integer quotient by one unit in the last place (scrap_rate 0.07, net    *)
(* 465: 501 instead of 500); for the scrap rates, quantities and horizons  *)
(* of this model the two agree.  Row labels of the tables are the          *)
(* source's, written without accents.                                      *)
(***************************************************************************)
EXTENDS Integers, Sequences, FiniteSets, TLC

VARIABLES
    fn,        \* the planner called: "nivelado", "perseguidor" or "mrp"
    args,      \* its arguments, a record with one field per parameter
    pc,        \* "call", "loop", "done" (returned) or "error" (raised)
    err,       \* the exception raised: "", "ValueError" or "IndexError"
    t,         \* number of loop iterations completed
    recepciones_programadas,       \* calcular_mrp: the local after alignment
    pab,                           \* calcular_mrp: pab[0..N]
    mrp_df,                        \* calcular_mrp: the table
    lanzamientos_planificados,     \* calcular_mrp: releases by release period
    produccion_bruta_por_periodo,  \* calcular_mps_nivelado: the level quantity
    inv_final_anterior,            \* both MPS planners: carried inventory
    producciones,                  \* perseguidor: list of gross productions
    mps_df                         \* both MPS planners: the table

vars == <<fn, args, pc, err, t, recepciones_programadas, pab, mrp_df,
          lanzamientos_planificados, produccion_bruta_por_periodo,
          inv_final_anterior, producciones, mps_df>>

mrpLocals == <<recepciones_programadas, pab, mrp_df, lanzamientos_planificados>>
mpsLocals == <<produccion_bruta_por_periodo, inv_final_anterior, producciones, mps_df>>

---------------------------------------------------------------------------
(* Bounds of the model and the values arguments are drawn from.            *)

MaxN == 2          \* longest demand / gross-requirement sequence
MaxLead == 1       \* largest lead time

RBVals == {0, 2, 5}            \* gross requirements, demand
RPVals == {0, 3}               \* scheduled receipts
InvVals == {1, 6}              \* initial inventory
SSVals == {0, 2}               \* safety stock (scalar)
SSPeriodVals == {0, 1}         \* safety stock per period
LoteVals == {-1, 0, 1, 4}      \* lote_minimo (minimum lot or fixed lot)
PoliticaVals == {"LFL", "FOQ", "EOQ"}
ScrapVals == {0, 5, 50, 100, 120}   \* scrap_rate in hundredths

SeqsUpTo(S, n) == UNION {[1..k -> S] : k \in 0..n}

---------------------------------------------------------------------------
(* Arithmetic helpers.                                                     *)

Max(a, b) == IF a >= b THEN a ELSE b

\* math.ceil(a / b) for integers a >= 0, b > 0
CeilDiv(a, b) == (a + b - 1) \div b

RECURSIVE SumSeq(_)
SumSeq(s) == IF s = <<>> THEN 0 ELSE Head(s) + SumSeq(Tail(s))

Zeros(n) == [i \in 1..n |-> 0]

\* pd.DataFrame(index=rows, columns=1..n).fillna(0.0)
DataFrame(rows, n) == [r \in rows |-> Zeros(n)]

---------------------------------------------------------------------------
(* calcular_mrp                                                            *)

MrpRows == {"Requerimientos Brutos", "Recepciones Programadas",
            "Inventario Proyectado Disponible", "Requerimientos Netos",
            "Recepcion de Pedidos Planificados",
            "Lanzamiento Planificado de Pedidos"}

\* an alignment that keeps the last num_periodos entries instead of the first
AlignToHorizon_Tail(rp, n) ==
    IF Len(rp) # n
    THEN SubSeq(rp \o Zeros(n), Len(rp) + 1, Len(rp) + n)
    ELSE rp

\* (recepciones_programadas + [0.0] * num_periodos)[:num_periodos]
AlignToHorizon(rp, n) ==
    IF Len(rp) # n THEN SubSeq(rp \o Zeros(n), 1, n) ELSE rp

\* pab_antes_recepcion_planif = pab_inicio_periodo + rp_t
PabAntesRecepcion(pab_inicio_periodo, rp_t) == pab_inicio_periodo + rp_t

\* a netting that forgets the safety stock
RequerimientoNeto_SinStock(rb_t, stock_seguridad, pab_antes) ==
    IF rb_t - pab_antes > 0 THEN rb_t - pab_antes ELSE 0

\* a netting that forgets the clamp at zero
RequerimientoNeto_SinMax(rb_t, stock_seguridad, pab_antes) ==
    rb_t + stock_seguridad - pab_antes

\* rn_t = max(0, rb_t + stock_seguridad - pab_antes_recepcion_planif)
RequerimientoNeto(rb_t, stock_seguridad, pab_antes) ==
    Max(0, rb_t + stock_seguridad - pab_antes)

\* the FOQ branch raises ValueError when it is reached with lote_minimo <= 0
LoteRaises(rn_t, lote_minimo, politica_lote) ==
    rn_t > 0 /\ politica_lote = "FOQ" /\ lote_minimo <= 0

\* a lot sizing whose FOQ branch rounds down to whole lots
RecepcionPlanificada_Floor(rn_t, lote_minimo, politica_lote) ==
    IF rn_t > 0
    THEN IF politica_lote = "FOQ" THEN (rn_t \div lote_minimo) * lote_minimo
         ELSE IF rn_t >= lote_minimo THEN rn_t ELSE lote_minimo
    ELSE 0

\* rpp_t, where LoteRaises is false
RecepcionPlanificada(rn_t, lote_minimo, politica_lote) ==
    IF rn_t > 0
    THEN IF politica_lote = "LFL" THEN Max(rn_t, lote_minimo)
         ELSE IF politica_lote = "FOQ" THEN CeilDiv(rn_t, lote_minimo) * lote_minimo
         ELSE Max(rn_t, lote_minimo)
    ELSE 0

\* a release period clamped to the first period of the horizon
PeriodoLanzamiento_Clamp(p, lead_time) ==
    IF p - lead_time >= 1 THEN p - lead_time ELSE 1

\* periodo_lanzamiento = t - lead_time
PeriodoLanzamiento(p, lead_time) == p - lead_time

\* a release step that forgets the lead-time offset
Lanzar_SinOffset(lanz, p, lead_time, rpp_t) == [lanz EXCEPT ![p] = @ + rpp_t]

\* lanzamientos_planificados after the release step of period p
Lanzar(lanz, p, lead_time, rpp_t) ==
    LET pl == PeriodoLanzamiento(p, lead_time) IN
    IF pl >= 1
    THEN IF pl \in DOMAIN lanz THEN [lanz EXCEPT ![pl] = @ + rpp_t]
         ELSE lanz      \* out of range: a warning is printed, nothing is added
    ELSE lanz

\* a PAB update that forgets the planned order receipt
PabFinal_SinRecepcion(pab_antes, rb_t, rpp_t) == pab_antes - rb_t

\* pab[t] = pab_antes_recepcion_planif - rb_t + rpp_t
PabFinal(pab_antes, rb_t, rpp_t) == pab_antes - rb_t + rpp_t

MrpArgs ==
    [requerimientos_brutos : SeqsUpTo(RBVals, MaxN),
     inv_inicial : InvVals,
     stock_seguridad : SSVals,
     recepciones_programadas : SeqsUpTo(RPVals, MaxN + 1),
     lead_time : (-1)..MaxLead,
     lote_minimo : LoteVals,
     politica_lote : PoliticaVals]

\* the MRP scenario of the specification
MrpScenario ==
    [requerimientos_brutos |-> <<800, 1200, 900, 1100>>,
     inv_inicial |-> 300,
     stock_seguridad |-> 100,
     recepciones_programadas |-> <<500, 0, 0, 250>>,
     lead_time |-> 1,
     lote_minimo |-> 1,
     politica_lote |-> "LFL"]

MrpN == Len(args.requerimientos_brutos)

MrpEnter ==
    /\ fn = "mrp" /\ pc = "call"
    /\ recepciones_programadas' = AlignToHorizon(args.recepciones_programadas, MrpN)
    /\ mrp_df' = DataFrame(MrpRows, MrpN)
    /\ pab' = [i \in 0..MrpN |-> IF i = 0 THEN args.inv_inicial ELSE 0]
    /\ lanzamientos_planificados' = Zeros(MrpN)
    /\ pc' = "loop"
    /\ UNCHANGED <<fn, args, err, t, mpsLocals>>

MrpPeriod ==
    /\ fn = "mrp" /\ pc = "loop" /\ t < MrpN
    /\ LET p == t + 1
           pab_inicio_periodo == pab[p - 1]
           rb_t == args.requerimientos_brutos[p]
           rp_t == recepciones_programadas[p]
           pab_antes == PabAntesRecepcion(pab_inicio_periodo, rp_t)
           rn_t == RequerimientoNeto(rb_t, args.stock_seguridad, pab_antes)
           df1 == [mrp_df EXCEPT !["Requerimientos Brutos"][p] = rb_t,
                                 !["Recepciones Programadas"][p] = rp_t,
                                 !["Requerimientos Netos"][p] = rn_t]
       IN IF LoteRaises(rn_t, args.lote_minimo, args.politica_lote)
          THEN /\ mrp_df' = df1
               /\ pc' = "error"
               /\ err' = "ValueError"
               /\ UNCHANGED <<t, pab, lanzamientos_planificados>>
          ELSE LET rpp_t == RecepcionPlanificada(rn_t, args.lote_minimo,
                                                 args.politica_lote)
                   pab_t == PabFinal(pab_antes, rb_t, rpp_t)
               IN /\ lanzamientos_planificados' =
                        Lanzar(lanzamientos_planificados, p, args.lead_time, rpp_t)
                  /\ pab' = [pab EXCEPT ![p] = pab_t]
                  /\ mrp_df' = [df1 EXCEPT
                        !["Recepcion de Pedidos Planificados"][p] = rpp_t,
                        !["Inventario Proyectado Disponible"][p] = pab_t]
                  /\ t' = p
                  /\ UNCHANGED <<pc, err>>
    /\ UNCHANGED <<fn, args, recepciones_programadas, mpsLocals>>

MrpReturn ==
    /\ fn = "mrp" /\ pc = "loop" /\ t = MrpN
    /\ mrp_df' = [mrp_df EXCEPT !["Lanzamiento Planificado de Pedidos"] =
                                    lanzamientos_planificados]
    /\ pc' = "done"
    /\ UNCHANGED <<fn, args, err, t, recepciones_programadas, pab,
                   lanzamientos_planificados, mpsLocals>>

\* calcular_mrp as a function of its arguments: the outcome ("done" or
\* "error"), the table, the PAB list and the release series a call with
\* arguments a ends with.  MrpLoop runs the periods p..N from the locals st.
RECURSIVE MrpLoop(_, _, _, _)
MrpLoop(a, rp, p, st) ==
    IF p > Len(a.requerimientos_brutos)
    THEN [st EXCEPT !.pc = "done",
                    !.mrp_df["Lanzamiento Planificado de Pedidos"] =
                        st.lanzamientos_planificados]
    ELSE LET rb_t == a.requerimientos_brutos[p]
             rp_t == rp[p]
             pab_antes == PabAntesRecepcion(st.pab[p - 1], rp_t)
             rn_t == RequerimientoNeto(rb_t, a.stock_seguridad, pab_antes)
             df1 == [st.mrp_df EXCEPT !["Requerimientos Brutos"][p] = rb_t,
                                      !["Recepciones Programadas"][p] = rp_t,
                                      !["Requerimientos Netos"][p] = rn_t]
         IN IF LoteRaises(rn_t, a.lote_minimo, a.politica_lote)
            THEN [st EXCEPT !.pc = "error", !.mrp_df = df1]
            ELSE LET rpp_t == RecepcionPlanificada(rn_t, a.lote_minimo,
                                                   a.politica_lote)
                     pab_t == PabFinal(pab_antes, rb_t, rpp_t)
                 IN MrpLoop(a, rp, p + 1,
                       [pc |-> "loop",
                        pab |-> [st.pab EXCEPT ![p] = pab_t],
                        mrp_df |-> [df1 EXCEPT
                            !["Recepcion de Pedidos Planificados"][p] = rpp_t,
                            !["Inventario Proyectado Disponible"][p] = pab_t],
                        lanzamientos_planificados |->
                            Lanzar(st.lanzamientos_planificados, p,
                                   a.lead_time, rpp_t)])

MrpCall(a) ==
    LET n == Len(a.requerimientos_brutos) IN
    MrpLoop(a, AlignToHorizon(a.recepciones_programadas, n), 1,
            [pc |-> "loop",
             pab |-> [i \in 0..n |-> IF i = 0 THEN a.inv_inicial ELSE 0],
             mrp_df |-> DataFrame(MrpRows, n),
             lanzamientos_planificados |-> Zeros(n)])


---------------------------------------------------------------------------
(* calcular_mps_nivelado                                                   *)

NiveladoRows == {"Inventario Inicial", "Produccion Bruta Requerida",
                 "Inventario Disponible", "Demanda", "Inventario Final"}

\* a total net requirement that forgets the terminal safety stock
RequerimientoNetoTotal_SinStock(demanda, stock_seguridad_final, inv_inicial) ==
    IF SumSeq(demanda) - inv_inicial > 0 THEN SumSeq(demanda) - inv_inicial ELSE 0

\* requerimiento_neto_total = max(0, sum(demanda) + stock_seguridad_final - inv_inicial)
RequerimientoNetoTotal(demanda, stock_seguridad_final, inv_inicial) ==
    Max(0, SumSeq(demanda) + stock_seguridad_final - inv_inicial)

\* a level quantity that forgets the scrap inflation
ProduccionBrutaNivelada_SinScrap(requerimiento_neto_total, num_periodos, scrap_rate) ==
    (requerimiento_neto_total + num_periodos - 1) \div num_periodos

\* math.ceil((requerimiento_neto_total / num_periodos) / (1 - scrap_rate)),
\* for num_periodos > 0 and scrap_rate < 100 hundredths
ProduccionBrutaNivelada(requerimiento_neto_total, num_periodos, scrap_rate) ==
    CeilDiv(requerimiento_neto_total * 100, num_periodos * (100 - scrap_rate))

\* an available inventory that forgets the carried inventory
InvDisponible_SinInicial(inv_inicial_periodo, produccion) == produccion

\* inv_disponible = inv_inicial_periodo + produccion
InvDisponible(inv_inicial_periodo, produccion) == inv_inicial_periodo + produccion

\* inv_final = inv_disponible - demanda_actual
InvFinal(inv_disponible, demanda_actual) == inv_disponible - demanda_actual

NiveladoArgs ==
    [demanda : SeqsUpTo(RBVals, MaxN),
     inv_inicial : InvVals,
     stock_seguridad_final : SSVals,
     scrap_rate : ScrapVals,
     num_periodos : (-1)..(MaxN + 1)]

\* the level scenario of the specification (problem 1, product B)
NiveladoScenario ==
    [demanda |-> <<800, 1000, 700, 700>>,
     inv_inicial |-> 0,
     stock_seguridad_final |-> 50,
     scrap_rate |-> 5,
     num_periodos |-> 4]

NiveladoEnter ==
    /\ fn = "nivelado" /\ pc = "call"
    /\ LET requerimiento_neto_total ==
               RequerimientoNetoTotal(args.demanda, args.stock_seguridad_final,
                                      args.inv_inicial)
       IN IF args.num_periodos <= 0 \/ 100 - args.scrap_rate <= 0
          THEN /\ pc' = "error"
               /\ err' = "ValueError"
               /\ UNCHANGED mpsLocals
          ELSE /\ produccion_bruta_por_periodo' =
                      ProduccionBrutaNivelada(requerimiento_neto_total,
                                              args.num_periodos, args.scrap_rate)
               /\ mps_df' = DataFrame(NiveladoRows, args.num_periodos)
               /\ inv_final_anterior' = args.inv_inicial
               /\ pc' = "loop"
               /\ UNCHANGED <<err, producciones>>
    /\ UNCHANGED <<fn, args, t, mrpLocals>>

NiveladoPeriod ==
    /\ fn = "nivelado" /\ pc = "loop" /\ t < args.num_periodos
    /\ LET p == t + 1
           inv_inicial_periodo == inv_final_anterior
           prod_planificada == produccion_bruta_por_periodo
           inv_disponible == InvDisponible(inv_inicial_periodo, prod_planificada)
       IN IF p > Len(args.demanda)
          THEN \* demanda[idx_demanda] is out of range
               /\ pc' = "error"
               /\ err' = "IndexError"
               /\ UNCHANGED <<t, inv_final_anterior, mps_df>>
          ELSE LET demanda_actual == args.demanda[p]
                   inv_final == InvFinal(inv_disponible, demanda_actual)
               IN /\ mps_df' = [mps_df EXCEPT
                        !["Inventario Inicial"][p] = inv_inicial_periodo,
                        !["Produccion Bruta Requerida"][p] = prod_planificada,
                        !["Inventario Disponible"][p] = inv_disponible,
                        !["Demanda"][p] = demanda_actual,
                        !["Inventario Final"][p] = inv_final]
                  /\ inv_final_anterior' = inv_final
                  /\ t' = p
                  /\ UNCHANGED <<pc, err>>
    /\ UNCHANGED <<fn, args, produccion_bruta_por_periodo, producciones, mrpLocals>>

NiveladoReturn ==
    /\ fn = "nivelado" /\ pc = "loop" /\ t = args.num_periodos
    /\ pc' = "done"
    /\ UNCHANGED <<fn, args, err, t, mrpLocals, mpsLocals>>

---------------------------------------------------------------------------
(* calcular_mps_perseguidor_ss_variable                                    *)

PerseguidorRows == NiveladoRows \cup {"Stock Seguridad Periodo"}

\* a chase net need that forgets the period's safety stock
ProduccionNecesariaNeta_SinStock(demanda_actual, ss_actual, inv_inicial_periodo) ==
    IF demanda_actual - inv_inicial_periodo > 0
    THEN demanda_actual - inv_inicial_periodo ELSE 0

\* produccion_necesaria_neta = max(0, demanda_actual + ss_actual - inv_inicial_periodo)
ProduccionNecesariaNeta(demanda_actual, ss_actual, inv_inicial_periodo) ==
    Max(0, demanda_actual + ss_actual - inv_inicial_periodo)

\* a gross quantity that applies the yield instead of dividing by it
ProduccionBrutaRequerida_Rendimiento(produccion_necesaria_neta, scrap_rate) ==
    (produccion_necesaria_neta * (100 - scrap_rate) + 99) \div 100

\* math.ceil(produccion_necesaria_neta / (1 - scrap_rate)), scrap_rate < 100 hundredths
ProduccionBrutaRequerida(produccion_necesaria_neta, scrap_rate) ==
    CeilDiv(produccion_necesaria_neta * 100, 100 - scrap_rate)

PerseguidorArgs ==
    [demanda : SeqsUpTo(RBVals, MaxN),
     inv_inicial : InvVals,
     stocks_seguridad_periodo : SeqsUpTo(SSPeriodVals, MaxN),
     scrap_rate : ScrapVals]

PerseguidorN == Len(args.demanda)

PerseguidorEnter ==
    /\ fn = "perseguidor" /\ pc = "call"
    /\ IF Len(args.stocks_seguridad_periodo) # PerseguidorN
       THEN /\ pc' = "error"
            /\ err' = "ValueError"
            /\ UNCHANGED mpsLocals
       ELSE /\ mps_df' = DataFrame(PerseguidorRows, PerseguidorN)
            /\ inv_final_anterior' = args.inv_inicial
            /\ producciones' = <<>>
            /\ pc' = "loop"
            /\ UNCHANGED <<err, produccion_bruta_por_periodo>>
    /\ UNCHANGED <<fn, args, t, mrpLocals>>

PerseguidorPeriod ==
    /\ fn = "perseguidor" /\ pc = "loop" /\ t < PerseguidorN
    /\ LET p == t + 1
           inv_inicial_periodo == inv_final_anterior
           demanda_actual == args.demanda[p]
           ss_actual == args.stocks_seguridad_periodo[p]
           produccion_necesaria_neta ==
               ProduccionNecesariaNeta(demanda_actual, ss_actual, inv_inicial_periodo)
       IN IF 100 - args.scrap_rate <= 0
          THEN /\ pc' = "error"
               /\ err' = "ValueError"
               /\ UNCHANGED <<t, inv_final_anterior, producciones, mps_df>>
          ELSE LET produccion_bruta_requerida ==
                       ProduccionBrutaRequerida(produccion_necesaria_neta,
                                                args.scrap_rate)
                   inv_disponible ==
                       InvDisponible(inv_inicial_periodo, produccion_bruta_requerida)
                   inv_final == InvFinal(inv_disponible, demanda_actual)
               IN /\ producciones' = Append(producciones, produccion_bruta_requerida)
                  /\ mps_df' = [mps_df EXCEPT
                        !["Inventario Inicial"][p] = inv_inicial_periodo,
                        !["Stock Seguridad Periodo"][p] = ss_actual,
                        !["Produccion Bruta Requerida"][p] = produccion_bruta_requerida,
                        !["Inventario Disponible"][p] = inv_disponible,
                        !["Demanda"][p] = demanda_actual,
                        !["Inventario Final"][p] = inv_final]
                  /\ inv_final_anterior' = inv_final
                  /\ t' = p
                  /\ UNCHANGED <<pc, err>>
    /\ UNCHANGED <<fn, args, produccion_bruta_por_periodo, mrpLocals>>

PerseguidorReturn ==
    /\ fn = "perseguidor" /\ pc = "loop" /\ t = PerseguidorN
    /\ pc' = "done"
    /\ UNCHANGED <<fn, args, err, t, mrpLocals, mpsLocals>>

---------------------------------------------------------------------------
(* A behaviour is one call: the planner and its arguments are chosen at    *)
(* the start.                                                              *)

InitMrp ==
    /\ fn = "mrp"
    /\ args \in MrpArgs \cup {MrpScenario}

InitNivelado ==
    /\ fn = "nivelado"
    /\ args \in NiveladoArgs \cup {NiveladoScenario}

InitPerseguidor ==
    /\ fn = "perseguidor"
    /\ args \in PerseguidorArgs

Init ==
    /\ InitMrp \/ InitNivelado \/ InitPerseguidor
    /\ pc = "call" /\ err = "" /\ t = 0
    /\ recepciones_programadas = <<>>
    /\ pab = <<>>
    /\ mrp_df = <<>>
    /\ lanzamientos_planificados = <<>>
    /\ produccion_bruta_por_periodo = 0
    /\ inv_final_anterior = 0
    /\ producciones = <<>>
    /\ mps_df = <<>>

Next ==
    \/ MrpEnter
    \/ MrpPeriod
    \/ MrpReturn
    \/ NiveladoEnter
    \/ NiveladoPeriod
    \/ NiveladoReturn
    \/ PerseguidorEnter
    \/ PerseguidorPeriod
    \/ PerseguidorReturn

Spec == Init /\ [][Next]_vars

---------------------------------------------------------------------------
(* Properties.                                                             *)

\* scheduled_receipts[k] of the call: the argument, read as zero past its end
ScheduledAt(k) ==
    IF k <= Len(args.recepciones_programadas)
    THEN args.recepciones_programadas[k] ELSE 0

RB(k) == mrp_df["Requerimientos Brutos"][k]
RN(k) == mrp_df["Requerimientos Netos"][k]
RPP(k) == mrp_df["Recepcion de Pedidos Planificados"][k]

RECURSIVE SumOver(_, _)
SumOver(f, S) ==
    IF S = {} THEN 0
    ELSE LET k == CHOOSE x \in S : TRUE IN f[k] + SumOver(f, S \ {k})

Returned == pc = "done"
Raised == pc = "error"
InMrp == fn = "mrp" /\ pc # "call"

\* C1: every processed period t of calcular_mrp has
\* PAB[t] = PAB[t-1] + scheduled_receipts[t] + planned_order_receipt[t]
\* - gross_requirements[t], PAB[0] is the initial inventory, and the MRP
\* scenario of the specification gives PAB[1] = 100 and PAB[2] = 100.
PABRecurrence ==
    InMrp =>
        /\ pab[0] = args.inv_inicial
        /\ \A k \in 1..t :
              /\ pab[k] = pab[k - 1] + ScheduledAt(k) + RPP(k)
                            - args.requerimientos_brutos[k]
              /\ mrp_df["Inventario Proyectado Disponible"][k] = pab[k]
        /\ (args = MrpScenario /\ t >= 2) => (pab[1] = 100 /\ pab[2] = 100)

PABRecurrenceWitness ==
    /\ fn = "mrp" /\ Returned /\ args = MrpScenario
    /\ t = 4 /\ RPP(2) = 1200 /\ pab[4] = 100

\* C2: the net requirement of every period of calcular_mrp is
\* max(0, gross[t] + safety_stock - (PAB[t-1] + scheduled_receipts[t])):
\* never negative, scheduled receipts counted before netting.
NetRequirementFormula ==
    InMrp =>
        \A k \in 1..(IF Raised THEN t + 1 ELSE t) :
            LET need == args.requerimientos_brutos[k] + args.stock_seguridad
                          - (pab[k - 1] + ScheduledAt(k))
            IN /\ RN(k) >= 0
               /\ RN(k) = IF need > 0 THEN need ELSE 0

\* a scheduled receipt turns a shortage into no net requirement, and a
\* surplus is clamped at zero
NetRequirementWitness ==
    /\ fn = "mrp" /\ Returned
    /\ \E k \in 1..t :
          /\ ScheduledAt(k) > 0
          /\ args.requerimientos_brutos[k] + args.stock_seguridad - pab[k - 1] > 0
          /\ args.requerimientos_brutos[k] + args.stock_seguridad
                - (pab[k - 1] + ScheduledAt(k)) < 0
          /\ RN(k) = 0

\* C3: with lead_time >= 0, after the run planned_order_release[r] is
\* planned_order_receipt[r + lead_time] when r + lead_time <= N and 0
\* otherwise; the receipt of a period t <= lead_time is added to no period.
ReleaseAttribution ==
    (fn = "mrp" /\ Returned /\ args.lead_time >= 0) =>
        \A r \in 1..MrpN :
            /\ lanzamientos_planificados[r] =
                  IF r + args.lead_time <= MrpN THEN RPP(r + args.lead_time) ELSE 0
            /\ mrp_df["Lanzamiento Planificado de Pedidos"][r] =
                  lanzamientos_planificados[r]

\* period 1's receipt is dropped, period 2's is released in period 1
ReleaseAttributionWitness ==
    /\ fn = "mrp" /\ Returned /\ args.lead_time = 1 /\ MrpN = 2
    /\ RPP(1) > 0 /\ RPP(2) > 0
    /\ lanzamientos_planificados = <<RPP(2), 0>>

\* C4 as stated: for every input, the receipts of the periods t with
\* t - lead_time >= 1 add up to the releases of all release periods.
LeadTimeConservationEveryInput ==
    (fn = "mrp" /\ Returned) =>
        SumOver(mrp_df["Recepcion de Pedidos Planificados"],
                {k \in 1..MrpN : k - args.lead_time >= 1})
          = SumOver(lanzamientos_planificados, 1..MrpN)

\* C4 amended: the same identity for every input with lead_time >= 0.
LeadTimeConservation ==
    (fn = "mrp" /\ Returned /\ args.lead_time >= 0) =>
        SumOver(mrp_df["Recepcion de Pedidos Planificados"],
                {k \in 1..MrpN : k - args.lead_time >= 1})
          = SumOver(lanzamientos_planificados, 1..MrpN)

\* some receipts are excluded from the identity and some are released
LeadTimeConservationWitness ==
    /\ fn = "mrp" /\ Returned /\ args.lead_time >= 1
    /\ \E k \in 1..MrpN : k - args.lead_time < 1 /\ RPP(k) > 0
    /\ SumOver(lanzamientos_planificados, 1..MrpN) > 0

\* C5: under FOQ with lot_size > 0 every planned order receipt is the least
\* multiple of lot_size that covers the net requirement, and it is 0 exactly
\* when the net requirement is 0.
LotAlignment ==
    (InMrp /\ args.politica_lote = "FOQ" /\ args.lote_minimo > 0) =>
        \A k \in 1..t :
            /\ RPP(k) % args.lote_minimo = 0
            /\ RPP(k) >= RN(k)
            /\ RPP(k) - RN(k) < args.lote_minimo
            /\ (RPP(k) = 0) <=> (RN(k) = 0)

\* a net requirement that is no multiple of the lot is rounded up
LotAlignmentWitness ==
    /\ fn = "mrp" /\ Returned /\ args.politica_lote = "FOQ" /\ args.lote_minimo = 4
    /\ \E k \in 1..t : RN(k) > 4 /\ RN(k) < 8 /\ RPP(k) = 8

\* C6 as stated: a call of calcular_mrp with FOQ and lot_size <= 0 never
\* returns a table: it ends in ValueError whatever the other arguments are.
FoqNonPositiveLotNeverReturns ==
    (fn = "mrp" /\ args.politica_lote = "FOQ" /\ args.lote_minimo <= 0) =>
        /\ ~Returned
        /\ Raised => err = "ValueError"

\* C7 as stated: a call that ends in ValueError has processed no period and
\* written no cell of its table.
FailFast ==
    (Raised /\ err = "ValueError") =>
        /\ t = 0
        /\ \A r \in DOMAIN mrp_df : \A k \in DOMAIN mrp_df[r] : mrp_df[r][k] = 0
        /\ \A r \in DOMAIN mps_df : \A k \in DOMAIN mps_df[r] : mps_df[r][k] = 0

\* C8 as stated: the chase planner ends in ValueError exactly when
\* len(safety_stock_per_period) # len(demand) or scrap_rate >= 1, and
\* otherwise returns a plan.
PerseguidorValidation ==
    (fn = "perseguidor" /\ (Returned \/ Raised)) =>
        LET invalid == \/ Len(args.stocks_seguridad_periodo) # Len(args.demanda)
                       \/ args.scrap_rate >= 100
        IN /\ invalid => (Raised /\ err = "ValueError")
           /\ ~invalid => Returned

\* C9: the rows of an MPS plan (level or chase) satisfy, for every period k,
\* available = initial + gross production, final = available - demand,
\* initial[k+1] = final[k], and initial[1] is the given initial inventory.
PlanContinuity ==
    (fn \in {"nivelado", "perseguidor"} /\ pc \in {"loop", "done"}) =>
        /\ \A k \in 1..t :
              /\ mps_df["Inventario Disponible"][k] =
                    mps_df["Inventario Inicial"][k]
                      + mps_df["Produccion Bruta Requerida"][k]
              /\ mps_df["Demanda"][k] = args.demanda[k]
              /\ mps_df["Inventario Final"][k] =
                    mps_df["Inventario Disponible"][k] - args.demanda[k]
              /\ k < t => mps_df["Inventario Inicial"][k + 1] =
                             mps_df["Inventario Final"][k]
        /\ t >= 1 => mps_df["Inventario Inicial"][1] = args.inv_inicial
        /\ Returned => t = Len(mps_df["Inventario Final"])

\* a returned chase plan of two periods that produces in both
PlanContinuityWitness ==
    /\ fn = "perseguidor" /\ Returned /\ t = 2
    /\ mps_df["Produccion Bruta Requerida"][1] > 0
    /\ mps_df["Produccion Bruta Requerida"][2] > 0
    /\ mps_df["Inventario Inicial"][2] > 0

\* C10: the level planner's gross quantity is
\* ceil((max(0, sum(demand) + terminal_safety_stock - initial_inventory) / N)
\* / (1 - scrap_rate)), the same in every period; 856 in the scenario.
LevelQuantity ==
    (fn = "nivelado" /\ pc \in {"loop", "done"}) =>
        LET raw == SumSeq(args.demanda) + args.stock_seguridad_final
                     - args.inv_inicial
            total == IF raw > 0 THEN raw ELSE 0
            unit == args.num_periodos * (100 - args.scrap_rate)
            g == produccion_bruta_por_periodo
        IN \* g is the least integer with g * N * (1 - scrap) >= total
           /\ g * unit >= 100 * total
           /\ (g - 1) * unit < 100 * total
           /\ \A k \in 1..t : mps_df["Produccion Bruta Requerida"][k] = g
           /\ args = NiveladoScenario => g = 856

LevelQuantityWitness ==
    /\ fn = "nivelado" /\ Returned /\ args = NiveladoScenario
    /\ t = 4
    /\ \A k \in 1..4 : mps_df["Produccion Bruta Requerida"][k] = 856


\* net need of period k of the chase plan, from the plan's own rows
NetNeed(k) ==
    LET need == args.demanda[k] + args.stocks_seguridad_periodo[k]
                  - mps_df["Inventario Inicial"][k]
    IN IF need > 0 THEN need ELSE 0

\* total net requirement of the level plan, from the arguments
TotalNet ==
    LET raw == SumSeq(args.demanda) + args.stock_seguridad_final - args.inv_inicial
    IN IF raw > 0 THEN raw ELSE 0

\* C11: in both MPS planners, with 0 < scrap_rate < 1 the gross production
\* of a period is at least its net need (chase: max(0, demand + safety stock
\* - initial inventory); level: total_net / N), and with scrap_rate = 0 it is
\* that net need rounded up to an integer.
ScrapInflation ==
    /\ (fn = "perseguidor" /\ pc \in {"loop", "done"}) =>
          \A k \in 1..t :
              LET g == mps_df["Produccion Bruta Requerida"][k] IN
              /\ (args.scrap_rate > 0 /\ args.scrap_rate < 100) => g >= NetNeed(k)
              /\ args.scrap_rate = 0 => g = NetNeed(k)
    /\ (fn = "nivelado" /\ pc \in {"loop", "done"}) =>
          \A k \in 1..t :
              LET g == mps_df["Produccion Bruta Requerida"][k]
                  n == args.num_periodos
              IN /\ (args.scrap_rate > 0 /\ args.scrap_rate < 100) =>
                        g * n >= TotalNet
                 /\ args.scrap_rate = 0 =>
                        (g * n >= TotalNet /\ (g - 1) * n < TotalNet)

\* a chase period whose gross production is strictly inflated by scrap
ScrapInflationWitness ==
    /\ fn = "perseguidor" /\ Returned /\ args.scrap_rate = 50
    /\ \E k \in 1..t :
          NetNeed(k) > 0 /\ mps_df["Produccion Bruta Requerida"][k] = 2 * NetNeed(k)


\* the scheduled receipts of the call, already aligned to the horizon: the
\* first N entries, zeros where the argument has none
AlignedReceipts == [k \in 1..MrpN |-> ScheduledAt(k)]

\* C12: a scheduled_receipts sequence shorter than N is used as if extended
\* with zeros, a longer one as its first N entries; the call ends exactly as
\* the call made with the sequence already aligned ends (same outcome, same
\* table, same release series), so a length mismatch is never an error.
ReceiptsAlignment ==
    (InMrp /\ Len(args.recepciones_programadas) # MrpN) =>
        /\ recepciones_programadas = AlignedReceipts
        /\ \A k \in 1..t : mrp_df["Recepciones Programadas"][k] = ScheduledAt(k)
        /\ (Returned \/ Raised) =>
              LET r == MrpCall([args EXCEPT !.recepciones_programadas =
                                                AlignedReceipts])
              IN /\ r.pc = pc
                 /\ r.mrp_df = mrp_df
                 /\ r.pab = pab
                 /\ r.lanzamientos_planificados = lanzamientos_planificados

\* a returned run whose receipts were one short (padded) and carried a
\* receipt that changed period 1
ReceiptsAlignmentWitness ==
    /\ fn = "mrp" /\ Returned /\ MrpN = 2
    /\ args.recepciones_programadas = <<3>>
    /\ mrp_df["Recepciones Programadas"] = <<3, 0>>
    /\ RN(2) > 0


\* C13: under LFL (any minimum) or FOQ with lot_size > 0, the projected
\* available balance of every processed period of calcular_mrp is at least
\* the safety stock, whatever the initial inventory is.
PabCoversSafetyStock ==
    (InMrp /\ (\/ args.politica_lote = "LFL"
               \/ (args.politica_lote = "FOQ" /\ args.lote_minimo > 0))) =>
        \A k \in 1..t : pab[k] >= args.stock_seguridad

\* the initial inventory is below the safety stock, and a fixed lot lifts
\* the balance above it
PabCoversSafetyStockWitness ==
    /\ fn = "mrp" /\ Returned /\ t = 2
    /\ args.inv_inicial < args.stock_seguridad
    /\ args.politica_lote = "FOQ" /\ args.lote_minimo = 4
    /\ RPP(1) > RN(1) /\ RN(1) > 0
    /\ pab[1] > args.stock_seguridad
    /\ RN(2) > 0

\* C14: in the chase plan with 0 <= scrap_rate < 1 every period ends at or
\* above its safety-stock target, and a period whose initial inventory
\* covers demand + safety stock produces nothing.
ChaseMeetsSafetyStock ==
    (fn = "perseguidor" /\ pc \in {"loop", "done"}
       /\ args.scrap_rate >= 0 /\ args.scrap_rate < 100) =>
        \A k \in 1..t :
            /\ mps_df["Inventario Final"][k] >= args.stocks_seguridad_periodo[k]
            /\ mps_df["Inventario Inicial"][k] >=
                  args.demanda[k] + args.stocks_seguridad_periodo[k]
                => mps_df["Produccion Bruta Requerida"][k] = 0

\* a covered period produces nothing, the next one has to produce
ChaseMeetsSafetyStockWitness ==
    /\ fn = "perseguidor" /\ Returned /\ t = 2
    /\ args.demanda[1] > 0
    /\ mps_df["Produccion Bruta Requerida"][1] = 0
    /\ mps_df["Produccion Bruta Requerida"][2] > 0
    /\ args.stocks_seguridad_periodo[2] > 0
    /\ mps_df["Inventario Final"][2] >= args.stocks_seguridad_periodo[2]

\* C15: in the level plan with len(demand) = N > 0 and 0 <= scrap_rate < 1
\* the ending inventory of the last period is at least the terminal safety
\* stock.
LevelTerminalInventory ==
    (fn = "nivelado" /\ Returned /\ Len(args.demanda) = args.num_periodos
       /\ args.num_periodos > 0
       /\ args.scrap_rate >= 0 /\ args.scrap_rate < 100) =>
        mps_df["Inventario Final"][args.num_periodos] >= args.stock_seguridad_final

\* rounding up overshoots the target: the plan ends above it after producing
LevelTerminalInventoryWitness ==
    /\ fn = "nivelado" /\ Returned /\ args.num_periodos = 2
    /\ Len(args.demanda) = 2 /\ args.stock_seguridad_final > 0
    /\ produccion_bruta_por_periodo > 0
    /\ 2 * produccion_bruta_por_periodo > TotalNet
    /\ mps_df["Inventario Final"][2] > args.stock_seguridad_final

===========================================================================
